---- MODULE Spec2Model ----
(***************************************************************************)
(* Client-side session / auth-gated data-fetch behaviour of the employee   *)
(* turnover frontend: the token slot in localStorage, the page guards, the *)
(* async fetch handlers of the four dashboards, login and logout.          *)
(*                                                                         *)
(* Every async handler invocation is a record in the bag `calls`; a        *)
(* handler runs atomically from one `await` to the next (single threaded   *)
(* event loop), and the server's answer to each request is chosen          *)
(* nondeterministically from Outcomes.                                     *)
(***************************************************************************)
EXTENDS Naturals, Integers, FiniteSets, Sequences, Bags, TLC

(***************************************************************************)
(* Bounds of the model                                                     *)
(***************************************************************************)
NumTokens    == 1   \* distinct tokens the server may hand out
NumEmployees == 1   \* distinct employee ids shown in a list
MaxHandlers  == 1   \* async handler invocations alive at the same time
MaxInFlight  == 8   \* HTTP requests outstanding at the same time
MaxOverlap   == 2   \* handlers of one dashboard running at the same time, in the races
NumSelected  == 2   \* distinct employees selected one after the other, in the races

(***************************************************************************)
(* Values                                                                  *)
(***************************************************************************)
NoToken      == <<"null", 0>>          \* localStorage.getItem('token') === null
DemoToken    == <<"demo-token", 0>>
ServerTokens == {<<"jwt", i>> : i \in 1..NumTokens}
Tokens       == ServerTokens \cup {DemoToken}

EmployeeIds  == 1..NumEmployees
SelectedIds  == 1..NumSelected

\* what the server does with one request:
\*   ok      2xx with the expected JSON body
\*   err     non-2xx other than 401, JSON error body
\*   unauth  401, JSON error body
\*   net     no response (fetch rejects)
Outcomes == {"ok", "err", "unauth", "net"}

Routes          == {"/landing", "/login", "/dashboard", "/analytics",
                    "/employees", "/predictions", "/admin"}
ProtectedRoutes == {"/dashboard", "/analytics", "/employees", "/predictions", "/admin"}
NoNav           == [to |-> "-", hard |-> FALSE]

AnalyticsOps == {"getDashboardAnalytics", "getRiskDistribution",
                 "getTurnoverByDepartment", "getTurnoverBySalary",
                 "getSatisfactionDistribution", "getProjectCountAnalysis",
                 "getClusteringAnalysis"}
Ops == AnalyticsOps \cup
       {"listEmployees", "getEmployee", "getEmployeePredictions",
        "getRetentionStrategies", "createEmployee", "predictEmployeeTurnover",
        "getHighRiskPredictions", "getSystemStatus", "trainModels",
        "login", "logout"}

\* the Authorization header of a request
NoAuthHeader    == [scheme |-> "none", value |-> NoToken]
BearerHeader(t) == [scheme |-> "Bearer", value |-> t]

\* a fetched resource that belongs to one employee
D(kind, id) == [k |-> kind, id |-> id]
NoData      == D("none", 0)
EmptyList   == D("empty", 0)
ErrBody     == D("errbody", 0)

\* satisfaction_level of the Add Employee form, in hundredths
FormDefault == 50
FormValues  == {30, 50, 150}

VARIABLES
  token,       \* localStorage['token']
  route,       \* the page that is mounted
  pendingNav,  \* navigation requested by code and not yet performed
  navUser,     \* Navigation: user !== null
  login,       \* LoginPage: loading, error
  dash,        \* Dashboard page
  adminAuth,   \* AdminPage: isAuthenticated
  view,        \* the dashboard component that is mounted
  an,          \* AnalyticsDashboard
  emp,         \* EmployeesDashboard
  pred,        \* PredictionsDashboard
  adm,         \* AdminDashboard
  calls,       \* bag of async handler invocations that have not finished
  ev,          \* the last step taken (history)
  loginTok     \* token of the last successful login since the store was last cleared (history)

vars == <<token, route, pendingNav, navUser, login, dash, adminAuth, view, an,
          emp, pred, adm, calls, ev, loginTok>>

viewVars == <<an, emp, pred, adm>>

(***************************************************************************)
(* HTTP client (lib/api.ts)                                                *)
(***************************************************************************)
\* header the API client puts on a request
ApiClientHeader(t) == IF t = NoToken THEN NoAuthHeader ELSE BearerHeader(t)

\* the API client rejects on every failure
ApiClientRejects(o) == o # "ok"

\* the token store after the API client has handled a response
ApiClientTokenAfter(t, o) == IF o = "unauth" THEN NoToken ELSE t

(***************************************************************************)
(* window.fetch as the components use it directly                          *)
(***************************************************************************)
\* 'Authorization': `Bearer ${localStorage.getItem('token')}`
RawFetchHeader(t) == BearerHeader(t)

\* fetch() rejects only when there is no response; response.json() of an
\* error body resolves
RawFetchRejects(o) == o = "net"

\* response.ok
ResponseOk(o) == o = "ok"

Req(op, hdr) == [op |-> op, hdr |-> hdr]

\* one call of an API client operation sends one request (no retry)
ApiClientSend(op, t) == SetToBag({Req(op, ApiClientHeader(t))})

\* a call of each of the operations ops
ApiClientSendAll(ops, t) == SetToBag({Req(r, ApiClientHeader(t)) : r \in ops})

(***************************************************************************)
(* Handler invocations                                                     *)
(***************************************************************************)
Call(fn, step, id, pr, pend) ==
  [fn |-> fn, step |-> step, id |-> id, pr |-> pr, alive |-> TRUE,
   pend |-> pend, ok |-> {}]

One(c) == SetToBag({c})

RECURSIVE SumPend(_, _)
SumPend(S, B) ==
  IF S = {} THEN 0
  ELSE LET c == CHOOSE x \in S : TRUE
       IN  CopiesIn(c, B) * Cardinality(c.pend) + SumPend(S \ {c}, B)

InFlight(B) == SumPend(BagToSet(B), B)
Handlers(B) == BagCardinality(B)

\* room for n more handler invocations issuing k requests
RoomWithin(most, B, n, k) == /\ Handlers(B) + n <= most
                             /\ InFlight(B) + k <= MaxInFlight

Room(B, n, k) == RoomWithin(MaxHandlers, B, n, k)

\* components unmounted by a client-side navigation keep running, detached
Detach(c)   == IF c.fn = "handleLogout" THEN c ELSE [c EXCEPT !.alive = FALSE]
Orphaned(B) == BagOfAll(Detach, B)

\* the step that handles an answer, for a handler whose component is gone
Settled(c) == IF c.alive THEN "Settle" ELSE "SettleDetached"

\* the last step: what ran, which outcome it handled, what it sent
Ev(act, fn, out, id, done, sent, oks, alert, body) ==
  [act |-> act, fn |-> fn, out |-> out, id |-> id, done |-> done,
   sent |-> sent, oks |-> oks, alert |-> alert, body |-> body, tok0 |-> token]

(***************************************************************************)
(* Component state after construction (useState initial values)            *)
(***************************************************************************)
LoginInit == [loading |-> FALSE, error |-> FALSE]
DashInit  == [auth |-> FALSE, stats |-> "none", loading |-> TRUE,
              activeView |-> "overview"]
AnInit    == [data |-> [r \in AnalyticsOps |-> "none"], loading |-> TRUE]
EmpInit   == [employees |-> "empty", selected |-> NoData,
              predictions |-> EmptyList, strategies |-> EmptyList,
              loading |-> FALSE, tab |-> "list", form |-> FormDefault,
              showAddForm |-> FALSE]
PredInit  == [predictions |-> EmptyList, highRisk |-> "empty",
              result |-> "none", loading |-> FALSE, tab |-> "predict",
              employeeId |-> 0]
AdmInit   == [status |-> "none", training |-> "none", loading |-> FALSE,
              inProgress |-> FALSE]

(***************************************************************************)
(* Mount effects                                                           *)
(***************************************************************************)
\* useEffect(() => { fetch...() }, []) of the four dashboard components
ViewMount(v, t) ==
  LET base == [an |-> AnInit, emp |-> EmpInit, pred |-> PredInit, adm |-> AdmInit,
               newCalls |-> EmptyBag, sent |-> EmptyBag]
  IN CASE v = "analytics" ->
            [base EXCEPT
               !.newCalls = One(Call("fetchAnalyticsData", "await", 0, FALSE, AnalyticsOps)),
               !.sent = ApiClientSendAll(AnalyticsOps, t)]
       [] v = "employees" ->
            [base EXCEPT
               !.emp = [EmpInit EXCEPT !.loading = TRUE],
               !.newCalls = One(Call("fetchEmployees", "await", 0, FALSE, {"listEmployees"})),
               !.sent = One(Req("listEmployees", RawFetchHeader(t)))]
       [] v = "predictions" ->
            [base EXCEPT
               !.newCalls = One(Call("fetchHighRiskEmployees", "await", 0, FALSE,
                                     {"getHighRiskPredictions"})),
               !.sent = ApiClientSend("getHighRiskPredictions", t)]
       [] v = "admin" ->
            [base EXCEPT
               !.adm = [AdmInit EXCEPT !.loading = TRUE],
               !.newCalls = One(Call("fetchSystemStatus", "await", 0, FALSE,
                                     {"getSystemStatus"})),
               !.sent = ApiClientSend("getSystemStatus", t)]
       [] OTHER -> base

\* variant: an effect that runs twice starts the fetch twice
DashboardGuardTwice(t) ==
  IF t = NoToken
  THEN [dash |-> DashInit, pnav |-> [to |-> "/landing", hard |-> TRUE],
        newCalls |-> EmptyBag, sent |-> EmptyBag]
  ELSE LET c == Call("fetchDashboardStats", "await", 0, FALSE, {"getDashboardAnalytics"})
           r == Req("getDashboardAnalytics", ApiClientHeader(t))
       IN [dash |-> [DashInit EXCEPT !.auth = TRUE], pnav |-> NoNav,
           newCalls |-> One(c) (+) One(c), sent |-> One(r) (+) One(r)]

\* the guard of the Dashboard page: redirects without a token, else fetches
DashboardGuard(t) ==
  IF t = NoToken
  THEN [dash |-> DashInit, pnav |-> [to |-> "/landing", hard |-> TRUE],
        newCalls |-> EmptyBag, sent |-> EmptyBag]
  ELSE [dash |-> [DashInit EXCEPT !.auth = TRUE], pnav |-> NoNav,
        newCalls |-> One(Call("fetchDashboardStats", "await", 0, FALSE,
                              {"getDashboardAnalytics"})),
        sent |-> ApiClientSend("getDashboardAnalytics", t)]

\* variant: a guard that redirects but shows the page all the same
AdminGuardShowsAnyway(t) ==
  [auth |-> TRUE,
   pnav |-> IF t = NoToken THEN [to |-> "/landing", hard |-> FALSE] ELSE NoNav]

\* the guard of the Admin page: router.push('/landing') without a token
AdminGuard(t) ==
  IF t = NoToken
  THEN [auth |-> FALSE, pnav |-> [to |-> "/landing", hard |-> FALSE]]
  ELSE [auth |-> TRUE, pnav |-> NoNav]

\* the dashboard component a page renders when it is mounted
HostedView(p, t) ==
  CASE p = "/analytics"   -> "analytics"
    [] p = "/employees"   -> "employees"
    [] p = "/predictions" -> "predictions"
    [] p = "/admin"       -> IF AdminGuard(t).auth THEN "admin" ELSE "none"
    [] OTHER              -> "none"

\* everything a page does when it is mounted while the store holds t
PageMount(p, t) ==
  LET v  == HostedView(p, t)
      vm == ViewMount(v, t)
      dg == DashboardGuard(t)
  IN [dash      |-> IF p = "/dashboard" THEN dg.dash ELSE DashInit,
      adminAuth |-> IF p = "/admin" THEN AdminGuard(t).auth ELSE FALSE,
      view      |-> v,
      pnav      |-> CASE p = "/dashboard" -> dg.pnav
                      [] p = "/admin"     -> AdminGuard(t).pnav
                      [] OTHER            -> NoNav,
      an |-> vm.an, emp |-> vm.emp, pred |-> vm.pred, adm |-> vm.adm,
      newCalls  |-> IF p = "/dashboard" THEN dg.newCalls ELSE vm.newCalls,
      sent      |-> IF p = "/dashboard" THEN dg.sent ELSE vm.sent]

\* the page p is loaded: a full page load (hard) throws away the running
\* script and mounts the layout again, a client-side navigation keeps it
Load(p, hard, act) ==
  LET m == PageMount(p, token)
  IN /\ route' = p
     /\ dash' = m.dash
     /\ adminAuth' = m.adminAuth
     /\ view' = m.view
     /\ an' = m.an
     /\ emp' = m.emp
     /\ pred' = m.pred
     /\ adm' = m.adm
     /\ login' = LoginInit
     /\ calls' = IF hard THEN m.newCalls ELSE Orphaned(calls) (+) m.newCalls
     /\ navUser' = IF hard THEN token # NoToken ELSE navUser
     /\ ev' = Ev(act, p, "-", 0, FALSE, m.sent, {}, "-", 0)
     /\ UNCHANGED <<token, loginTok>>

MountRoom(p) == LET m == PageMount(p, token)
                IN Room(Orphaned(calls), Handlers(m.newCalls), InFlight(m.newCalls))

\* the user opens the URL of page p (or reloads it)
Visit(p) ==
  /\ Load(p, TRUE, "Visit")
  /\ pendingNav' = PageMount(p, token).pnav

\* the Sidebar is on every protected page once the page renders its content
SidebarShown ==
  \/ route \in {"/analytics", "/employees", "/predictions"}
  \/ route = "/dashboard" /\ dash.auth
  \/ route = "/admin" /\ adminAuth

\* the user follows a Sidebar link
FollowLink(p) ==
  /\ SidebarShown
  /\ p \in ProtectedRoutes \ {route}
  /\ MountRoom(p)
  /\ Load(p, FALSE, "FollowLink")
  /\ pendingNav' = IF PageMount(p, token).pnav # NoNav
                   THEN PageMount(p, token).pnav ELSE pendingNav

\* a navigation requested by code (window.location.href, router.push) happens
NavComplete ==
  /\ pendingNav # NoNav
  /\ pendingNav.hard \/ MountRoom(pendingNav.to)
  /\ Load(pendingNav.to, pendingNav.hard,
          IF pendingNav.hard THEN "Redirect" ELSE "RouterPush")
  /\ pendingNav' = PageMount(pendingNav.to, token).pnav

(***************************************************************************)
(* The browser has just opened the landing page with an empty store        *)
(***************************************************************************)
Init ==
  /\ token = NoToken
  /\ route = "/landing"
  /\ pendingNav = NoNav
  /\ navUser = FALSE
  /\ login = LoginInit
  /\ dash = DashInit
  /\ adminAuth = FALSE
  /\ view = "none"
  /\ an = AnInit
  /\ emp = EmpInit
  /\ pred = PredInit
  /\ adm = AdmInit
  /\ calls = EmptyBag
  /\ ev = [act |-> "Init", fn |-> "-", out |-> "-", id |-> 0, done |-> FALSE,
           sent |-> EmptyBag, oks |-> {}, alert |-> "-", body |-> 0,
           tok0 |-> NoToken]
  /\ loginTok = NoToken

(***************************************************************************)
(* Bookkeeping shared by the handler steps                                 *)
(***************************************************************************)
frameVars == <<route, pendingNav, navUser, login, adminAuth>>

Finish(c)     == calls (-) One(c)
Replace(c, d) == (calls (-) One(c)) (+) One(d)

\* history: a step that may clear the token store forgets the last login
TrackLogin == loginTok' = IF token' = NoToken THEN NoToken ELSE loginTok

\* history: a step that leaves the token store alone
SameLogin == loginTok' = loginTok

Running == BagToSet(calls)

(***************************************************************************)
(* Dashboard page                                                          *)
(***************************************************************************)
\* fetchDashboardStats after the await: the catch only logs
SettleFetchDashboardStats(c, o) ==
  /\ c \in Running /\ c.fn = "fetchDashboardStats"
  /\ token' = ApiClientTokenAfter(token, o)
  /\ dash' = IF c.alive
             THEN [dash EXCEPT !.stats = IF ApiClientRejects(o) THEN @ ELSE "live",
                               !.loading = FALSE]
             ELSE dash
  /\ calls' = Finish(c)
  /\ ev' = Ev(Settled(c), c.fn, o, 0, TRUE, EmptyBag, {}, "-", 0)
  /\ TrackLogin
  /\ UNCHANGED <<frameVars, view, viewVars>>

DetachView(c) == IF c.fn \in {"handleLogout", "fetchDashboardStats"}
                 THEN c ELSE [c EXCEPT !.alive = FALSE]

\* a card of the overview (or "Back to Overview") switches the hosted view
SetActiveView(v) ==
  /\ route = "/dashboard" /\ dash.auth
  /\ v \in {"overview", "analytics", "predictions", "employees"}
  /\ v # dash.activeView
  /\ v # "overview" => (~dash.loading /\ dash.activeView = "overview")
  /\ LET w  == IF v = "overview" THEN "none" ELSE v
         vm == ViewMount(w, token)
         old == BagOfAll(DetachView, calls)
     IN /\ Room(old, Handlers(vm.newCalls), InFlight(vm.newCalls))
        /\ dash' = [dash EXCEPT !.activeView = v]
        /\ view' = IF dash.loading THEN "none" ELSE w
        /\ an' = vm.an /\ emp' = vm.emp /\ pred' = vm.pred /\ adm' = vm.adm
        /\ calls' = old (+) vm.newCalls
        /\ ev' = Ev("SetActiveView", v, "-", 0, FALSE, vm.sent, {}, "-", 0)
        /\ SameLogin
  /\ UNCHANGED <<token, frameVars>>

(***************************************************************************)
(* AnalyticsDashboard                                                      *)
(***************************************************************************)
AnAll(x) == [r \in AnalyticsOps |-> x]

\* variant: the figures of the first department of the demo data
DemoSalesDepartment ==
  [total_employees |-> 4140, employees_left |-> 1012, turnover_rate |-> 244]

\* the head of the demo analyticsData of the catch (turnover_rate in thousandths)
DemoAnalyticsData ==
  [total_employees |-> 14999, employees_left |-> 3571, turnover_rate |-> 238]

\* analyticsData.total_employees of the Total Employees card, 0 standing for
\* "no fallback figure": live data of the server, or nothing fetched yet
TotalEmployees(d) ==
  IF d["getDashboardAnalytics"] = "demo" THEN DemoAnalyticsData.total_employees ELSE 0

\* the array handed to Promise.all
AnalyticsBatch == <<"getDashboardAnalytics", "getRiskDistribution",
                    "getTurnoverByDepartment", "getTurnoverBySalary",
                    "getSatisfactionDistribution", "getProjectCountAnalysis",
                    "getClusteringAnalysis">>

\* Promise.all treats its seven promises alike, so only the outcomes of the
\* answers matter, not which request is answered first: the model answers
\* the outstanding requests in array order, each with any outcome
NextAnswer(pend) ==
  AnalyticsBatch[CHOOSE i \in 1..Len(AnalyticsBatch) :
                   /\ AnalyticsBatch[i] \in pend
                   /\ \A j \in 1..(i - 1) : AnalyticsBatch[j] \notin pend]

\* fetchAnalyticsData up to the await of Promise.all
StartFetchAnalyticsData(reqs) ==
  /\ an' = [an EXCEPT !.loading = TRUE]
  /\ calls' = calls (+) One(Call("fetchAnalyticsData", "await", 0, FALSE, AnalyticsOps))
  /\ reqs = ApiClientSendAll(AnalyticsOps, token)

\* variant: a Refresh Data button that is rendered while loading as well
RefreshDataShownAlways(a) == TRUE

\* the Refresh Data button is rendered only when loading is false
RefreshDataShown(a) == ~a.loading

\* the Refresh Data button, while fewer than most handlers run
RefreshAnalyticsWithin(most) ==
  /\ view = "analytics" /\ RefreshDataShown(an)
  /\ RoomWithin(most, calls, 1, Cardinality(AnalyticsOps))
  /\ \E reqs \in {ApiClientSendAll(AnalyticsOps, token)} :
       /\ StartFetchAnalyticsData(reqs)
       /\ ev' = Ev("RefreshAnalytics", "fetchAnalyticsData", "-", 0, FALSE, reqs, {}, "-", 0)
       /\ SameLogin
  /\ UNCHANGED <<token, frameVars, dash, view, emp, pred, adm>>

RefreshAnalytics ==
  /\ view = "analytics"
  /\ RefreshAnalyticsWithin(MaxHandlers)

\* one of the seven requests of a batch is answered.  Promise.all rejects
\* with the first rejection (catch: demo data for all seven) and resolves
\* when all seven have resolved; answers after a rejection are dropped.
SettleFetchAnalyticsData(c, r, o) ==
  /\ c \in Running /\ c.fn = "fetchAnalyticsData" /\ r = NextAnswer(c.pend)
  /\ LET pend2    == c.pend \ {r}
         rejects  == c.step = "await" /\ ApiClientRejects(o)
         resolves == c.step = "await" /\ ~ApiClientRejects(o) /\ pend2 = {}
         \* until the batch rejects, every answer so far was a success
         oks      == IF c.step = "await"
                     THEN (AnalyticsOps \ c.pend) \cup (IF ApiClientRejects(o) THEN {} ELSE {r})
                     ELSE {}
     IN /\ token' = ApiClientTokenAfter(token, o)
        /\ an' = IF c.alive /\ rejects THEN [data |-> AnAll("demo"), loading |-> FALSE]
                 ELSE IF c.alive /\ resolves THEN [data |-> AnAll("live"), loading |-> FALSE]
                 ELSE an
        /\ calls' = IF pend2 = {} THEN Finish(c)
                    ELSE Replace(c, [c EXCEPT !.pend = pend2,
                                              !.step = IF rejects THEN "rejected" ELSE @])
        /\ ev' = Ev(Settled(c), c.fn, o, 0, rejects \/ resolves, EmptyBag, oks, "-", 0)
        /\ TrackLogin
  /\ UNCHANGED <<frameVars, dash, view, emp, pred, adm>>

(***************************************************************************)
(* EmployeesDashboard                                                      *)
(***************************************************************************)
\* variant: a fetch that does not raise the loading flag
StartFetchEmployeesQuietly(e) == e

\* fetchEmployees up to the await
StartFetchEmployees(e) == [e EXCEPT !.loading = TRUE]
FetchEmployeesCall     == Call("fetchEmployees", "await", 0, FALSE, {"listEmployees"})
FetchEmployeesReq      == One(Req("listEmployees", RawFetchHeader(token)))

\* the Refresh Data button, always rendered
RefreshEmployees ==
  /\ view = "employees"
  /\ Room(calls, 1, 1)
  /\ emp' = StartFetchEmployees(emp)
  /\ calls' = calls (+) One(FetchEmployeesCall)
  /\ ev' = Ev("RefreshEmployees", "fetchEmployees", "-", 0, FALSE, FetchEmployeesReq, {}, "-", 0)
  /\ SameLogin
  /\ UNCHANGED <<token, frameVars, dash, view, an, pred, adm>>

\* setEmployees(data.employees || []) or, in the catch, the demo list
EmployeesAfter(o) ==
  IF RawFetchRejects(o) THEN "demo"
  ELSE IF ResponseOk(o) THEN "live" ELSE "empty"

SettleFetchEmployees(c, o) ==
  /\ c \in Running /\ c.fn = "fetchEmployees"
  /\ emp' = IF c.alive
            THEN [emp EXCEPT !.employees = EmployeesAfter(o), !.loading = FALSE]
            ELSE emp
  /\ calls' = Finish(c)
  /\ ev' = Ev(Settled(c), c.fn, o, 0, TRUE, EmptyBag, {}, "-", 0)
  /\ SameLogin
  /\ UNCHANGED <<token, frameVars, dash, view, an, pred, adm>>

\* View Details of a row of the list, one of the rows ids, while fewer than
\* most handlers run
ViewDetailsAmong(ids, most, id) ==
  /\ view = "employees" /\ emp.tab = "list"
  /\ emp.employees \in {"live", "demo"}
  /\ id \in ids
  /\ RoomWithin(most, calls, 1, 1)
  /\ emp' = [emp EXCEPT !.loading = TRUE, !.tab = "details"]
  /\ calls' = calls (+) One(Call("fetchEmployeeDetails", "employee", id, FALSE, {"getEmployee"}))
  /\ LET reqs == One(Req("getEmployee", RawFetchHeader(token)))
     IN /\ ev' = Ev("ViewDetails", "fetchEmployeeDetails", "-", id, FALSE, reqs, {}, "-", 0)
        /\ SameLogin
  /\ UNCHANGED <<token, frameVars, dash, view, an, pred, adm>>

ViewDetails(id) ==
  /\ id \in EmployeeIds
  /\ ViewDetailsAmong(EmployeeIds, MaxHandlers, id)

\* variant: a catch that replaces only the resource fetched last
DetailsDemoLastOnly(e, id) ==
  [e EXCEPT !.strategies = D("demo", id), !.loading = FALSE]

\* the catch of fetchEmployeeDetails: demo data for all three resources
DetailsDemo(e, id) ==
  [e EXCEPT !.selected = D("demo", id), !.predictions = D("demo", id),
            !.strategies = D("demo", id), !.loading = FALSE]

\* what the three awaits store when the response could be parsed
DetailsStore(e, step, id, o) ==
  CASE step = "employee" ->
         [e EXCEPT !.selected = IF ResponseOk(o) THEN D("live", id) ELSE ErrBody]
    [] step = "predictions" ->
         [e EXCEPT !.predictions = IF ResponseOk(o) THEN D("live", id) ELSE ErrBody]
    [] step = "strategies" ->
         [e EXCEPT !.strategies = IF ResponseOk(o) THEN D("live", id) ELSE EmptyList,
                   !.loading = FALSE]

\* variant: the same request once more
DetailsSameStep(step) == step

DetailsNextStep(step) == IF step = "employee" THEN "predictions" ELSE "strategies"
DetailsOp(step) == CASE step = "employee"    -> "getEmployee"
                     [] step = "predictions" -> "getEmployeePredictions"
                     [] step = "strategies"  -> "getRetentionStrategies"

SettleFetchEmployeeDetails(c, o) ==
  /\ c \in Running /\ c.fn = "fetchEmployeeDetails"
  /\ LET last == RawFetchRejects(o) \/ c.step = "strategies"
         nxt  == DetailsNextStep(c.step)
         reqs == IF last THEN EmptyBag
                 ELSE One(Req(DetailsOp(nxt), RawFetchHeader(token)))
     IN /\ emp' = IF ~c.alive THEN emp
                  ELSE IF RawFetchRejects(o) THEN DetailsDemo(emp, c.id)
                  ELSE DetailsStore(emp, c.step, c.id, o)
        /\ calls' = IF last THEN Finish(c)
                    ELSE Replace(c, [c EXCEPT !.step = nxt, !.pend = {DetailsOp(nxt)},
                                              !.ok = @ \cup (IF ResponseOk(o) THEN c.pend ELSE {})])
        /\ ev' = Ev(Settled(c), c.fn, o, c.id, last, reqs,
                    c.ok \cup (IF ResponseOk(o) THEN c.pend ELSE {}), "-", 0)
        /\ SameLogin
  /\ UNCHANGED <<token, frameVars, dash, view, an, pred, adm>>

\* the tab bar, and the Add Employee / Cancel buttons
SetEmployeesTab(t) ==
  /\ view = "employees"
  /\ t \in {"list", "details", "add"} /\ t # emp.tab
  /\ emp' = [emp EXCEPT !.tab = t]
  /\ ev' = Ev("SetEmployeesTab", t, "-", 0, FALSE, EmptyBag, {}, "-", 0)
  /\ SameLogin
  /\ UNCHANGED <<token, frameVars, dash, view, an, pred, adm, calls>>

\* handleFormChange('satisfaction_level', parseFloat(e.target.value))
HandleFormChange(v) ==
  /\ view = "employees" /\ emp.tab = "add"
  /\ v \in FormValues /\ v # emp.form
  /\ emp' = [emp EXCEPT !.form = v]
  /\ ev' = Ev("HandleFormChange", "-", "-", 0, FALSE, EmptyBag, {}, "-", v)
  /\ SameLogin
  /\ UNCHANGED <<token, frameVars, dash, view, an, pred, adm, calls>>

\* createEmployee up to the await; the button is disabled while loading
CreateEmployee ==
  /\ view = "employees" /\ emp.tab = "add" /\ ~emp.loading
  /\ Room(calls, 1, 1)
  /\ emp' = [emp EXCEPT !.loading = TRUE]
  /\ calls' = calls (+) One(Call("createEmployee", "await", 0, FALSE, {"createEmployee"}))
  /\ LET reqs == One(Req("createEmployee", RawFetchHeader(token)))
     IN /\ ev' = Ev("CreateEmployee", "createEmployee", "-", 0, FALSE, reqs, {}, "-", emp.form)
        /\ SameLogin
  /\ UNCHANGED <<token, frameVars, dash, view, an, pred, adm>>

\* variant: every answer that arrives counts as a success
CreatedUnlessNetwork(o) == ~RawFetchRejects(o)

\* the fetch resolved and response.ok is true
Created(o) == ~RawFetchRejects(o) /\ ResponseOk(o)

\* createEmployee after the await: on response.ok the form is reset and
\* fetchEmployees() is started without being awaited, then finally runs
SettleCreateEmployee(c, o) ==
  /\ c \in Running /\ c.fn = "createEmployee"
  /\ LET good == Created(o)
         reqs == IF good THEN FetchEmployeesReq ELSE EmptyBag
         msg  == IF good THEN "Employee created successfully!"
                 ELSE IF RawFetchRejects(o) THEN "Error creating employee. Please try again."
                 ELSE "Failed to create employee. Please try again."
     IN /\ emp' = IF ~c.alive THEN emp
                  ELSE IF good
                  THEN [emp EXCEPT !.showAddForm = FALSE, !.form = FormDefault,
                                   !.loading = FALSE]
                  ELSE [emp EXCEPT !.loading = FALSE]
        /\ calls' = IF good
                    THEN Replace(c, [FetchEmployeesCall EXCEPT !.alive = c.alive])
                    ELSE Finish(c)
        /\ ev' = Ev(Settled(c), c.fn, o, 0, TRUE, reqs, {}, msg, 0)
        /\ SameLogin
  /\ UNCHANGED <<token, frameVars, dash, view, an, pred, adm>>

(***************************************************************************)
(* PredictionsDashboard                                                    *)
(***************************************************************************)
\* the list a successful answer carries: without rows, or with rows
ListBodies == {"empty", "live"}

\* fetchHighRiskEmployees: the list as it was sent, or the demo list in the catch
HighRiskAfter(o, rows) == IF ApiClientRejects(o) THEN "demo" ELSE rows

\* the High Risk Employees tab: the header row and one row for each employee
\* of the list; it has no branch for an empty list
HighRiskTab(p) ==
  [shown |-> p.tab = "high-risk", rows |-> p.highRisk, emptyState |-> FALSE]

\* the HighRiskTable component, which no view renders
HighRiskTable(data) ==
  [rows |-> data, emptyState |-> data = "empty"]

\* predictTurnover: the prediction, or the demo prediction in the catch
ResultAfter(o) == IF ApiClientRejects(o) THEN "demo" ELSE "live"

\* fetchEmployeePredictions: setPredictions(data), or the demo history in the catch
HistoryAfter(id, o) ==
  IF RawFetchRejects(o) THEN D("demo", id)
  ELSE IF ResponseOk(o) THEN D("live", id) ELSE ErrBody

\* the fetch started by the mount effect; it never touches loading
SettleFetchHighRiskEmployees(c, o) ==
  /\ c \in Running /\ c.fn = "fetchHighRiskEmployees"
  /\ token' = ApiClientTokenAfter(token, o)
  /\ \E rows \in ListBodies :
       pred' = IF c.alive THEN [pred EXCEPT !.highRisk = HighRiskAfter(o, rows)] ELSE pred
  /\ calls' = Finish(c)
  /\ ev' = Ev(Settled(c), c.fn, o, 0, TRUE, EmptyBag, {}, "-", 0)
  /\ TrackLogin
  /\ UNCHANGED <<frameVars, dash, view, an, emp, adm>>

\* the Refresh Data button (disabled while loading): refreshAllData up to
\* its first await; predictionResult and employeeId are those of the render
\* the click happened in
RefreshAllDataWithin(most) ==
  /\ view = "predictions" /\ ~pred.loading
  /\ RoomWithin(most, calls, 1, 1)
  /\ pred' = [pred EXCEPT !.loading = TRUE]
  /\ calls' = calls (+) One(Call("refreshAllData", "highRisk", pred.employeeId,
                                 pred.result # "none", {"getHighRiskPredictions"}))
  /\ LET reqs == ApiClientSend("getHighRiskPredictions", token)
     IN /\ ev' = Ev("RefreshAllData", "refreshAllData", "-", pred.employeeId, FALSE,
                    reqs, {}, "-", 0)
        /\ SameLogin
  /\ UNCHANGED <<token, frameVars, dash, view, an, emp, adm>>

RefreshAllData ==
  /\ view = "predictions"
  /\ RefreshAllDataWithin(MaxHandlers)

\* the step of refreshAllData that follows step s, "done" when there is none
RefreshNext(c, s) ==
  IF s = "highRisk" /\ c.pr THEN "predict"
  ELSE IF s \in {"highRisk", "predict"} /\ c.id # 0 THEN "history"
  ELSE "done"

RefreshOp(s) == CASE s = "highRisk" -> "getHighRiskPredictions"
                  [] s = "predict"  -> "predictEmployeeTurnover"
                  [] s = "history"  -> "getEmployeePredictions"

\* refreshAllData after one of its awaits.  The awaited handlers run their
\* own catch and finally (predictTurnover and fetchEmployeePredictions set
\* loading to false) before refreshAllData goes on.
SettleRefreshAllData(c, o) ==
  /\ c \in Running /\ c.fn = "refreshAllData"
  /\ LET tok2 == IF c.step = "history" THEN token ELSE ApiClientTokenAfter(token, o)
         nxt  == RefreshNext(c, c.step)
         reqs == CASE nxt = "predict" -> ApiClientSend(RefreshOp(nxt), tok2)
                   [] nxt = "history" -> One(Req(RefreshOp(nxt), RawFetchHeader(tok2)))
                   [] OTHER           -> EmptyBag
         p1(rows) ==
                 CASE c.step = "highRisk" -> [pred EXCEPT !.highRisk = HighRiskAfter(o, rows)]
                   [] c.step = "predict"  -> [pred EXCEPT !.result = ResultAfter(o)]
                   [] c.step = "history"  -> [pred EXCEPT !.predictions = HistoryAfter(c.id, o)]
     IN /\ token' = tok2
        /\ \E rows \in ListBodies :
             pred' = IF c.alive THEN [p1(rows) EXCEPT !.loading = (nxt # "done")] ELSE pred
        /\ calls' = IF nxt = "done" THEN Finish(c)
                    ELSE Replace(c, [c EXCEPT !.step = nxt, !.pend = {RefreshOp(nxt)}])
        /\ ev' = Ev(Settled(c), c.fn, o, c.id, nxt = "done", reqs, {}, "-", 0)
        /\ TrackLogin
  /\ UNCHANGED <<frameVars, dash, view, an, emp, adm>>

\* the Predict Turnover button of the first tab, disabled while loading
PredictTurnover ==
  /\ view = "predictions" /\ pred.tab = "predict" /\ ~pred.loading
  /\ Room(calls, 1, 1)
  /\ pred' = [pred EXCEPT !.loading = TRUE]
  /\ calls' = calls (+) One(Call("predictTurnover", "await", 0, FALSE,
                                 {"predictEmployeeTurnover"}))
  /\ LET reqs == ApiClientSend("predictEmployeeTurnover", token)
     IN /\ ev' = Ev("PredictTurnover", "predictTurnover", "-", 0, FALSE, reqs, {}, "-", 0)
        /\ SameLogin
  /\ UNCHANGED <<token, frameVars, dash, view, an, emp, adm>>

SettlePredictTurnover(c, o) ==
  /\ c \in Running /\ c.fn = "predictTurnover"
  /\ token' = ApiClientTokenAfter(token, o)
  /\ pred' = IF c.alive
             THEN [pred EXCEPT !.result = ResultAfter(o), !.loading = FALSE]
             ELSE pred
  /\ calls' = Finish(c)
  /\ ev' = Ev(Settled(c), c.fn, o, 0, TRUE, EmptyBag, {}, "-", 0)
  /\ TrackLogin
  /\ UNCHANGED <<frameVars, dash, view, an, emp, adm>>

\* fetchEmployeePredictions up to the await
StartFetchEmployeePredictionsWithin(most, id, act) ==
  /\ RoomWithin(most, calls, 1, 1)
  /\ calls' = calls (+) One(Call("fetchEmployeePredictions", "await", id, FALSE,
                                 {"getEmployeePredictions"}))
  /\ LET reqs == One(Req("getEmployeePredictions", RawFetchHeader(token)))
     IN /\ ev' = Ev(act, "fetchEmployeePredictions", "-", id, FALSE, reqs, {}, "-", 0)
        /\ SameLogin

StartFetchEmployeePredictions(id, act) ==
  StartFetchEmployeePredictionsWithin(MaxHandlers, id, act)

\* View History of a row of the high-risk table, one of the rows ids, while
\* fewer than most handlers run
ViewHistoryAmong(ids, most, id) ==
  /\ view = "predictions" /\ pred.tab = "high-risk"
  /\ pred.highRisk \in {"live", "demo"}
  /\ id \in ids
  /\ pred' = [pred EXCEPT !.employeeId = id, !.tab = "employee-history",
                          !.loading = TRUE]
  /\ StartFetchEmployeePredictionsWithin(most, id, "ViewHistory")
  /\ UNCHANGED <<token, frameVars, dash, view, an, emp, adm>>

ViewHistory(id) ==
  /\ id \in EmployeeIds
  /\ ViewHistoryAmong(EmployeeIds, MaxHandlers, id)

\* the Load History button, disabled without an id and while loading
LoadHistory ==
  /\ view = "predictions" /\ pred.tab = "employee-history"
  /\ pred.employeeId # 0 /\ ~pred.loading
  /\ pred' = [pred EXCEPT !.loading = TRUE]
  /\ StartFetchEmployeePredictions(pred.employeeId, "LoadHistory")
  /\ UNCHANGED <<token, frameVars, dash, view, an, emp, adm>>

SettleFetchEmployeePredictions(c, o) ==
  /\ c \in Running /\ c.fn = "fetchEmployeePredictions"
  /\ pred' = IF c.alive
             THEN [pred EXCEPT !.predictions = HistoryAfter(c.id, o), !.loading = FALSE]
             ELSE pred
  /\ calls' = Finish(c)
  /\ ev' = Ev(Settled(c), c.fn, o, c.id, TRUE, EmptyBag, {}, "-", 0)
  /\ SameLogin
  /\ UNCHANGED <<token, frameVars, dash, view, an, emp, adm>>

\* the Employee ID input of the history tab
SetEmployeeId(id) ==
  /\ view = "predictions" /\ pred.tab = "employee-history"
  /\ id \in {0} \cup EmployeeIds /\ id # pred.employeeId
  /\ pred' = [pred EXCEPT !.employeeId = id]
  /\ ev' = Ev("SetEmployeeId", "-", "-", id, FALSE, EmptyBag, {}, "-", 0)
  /\ SameLogin
  /\ UNCHANGED <<token, frameVars, dash, view, an, emp, adm, calls>>

SetPredictionsTab(t) ==
  /\ view = "predictions"
  /\ t \in {"predict", "high-risk", "employee-history"} /\ t # pred.tab
  /\ pred' = [pred EXCEPT !.tab = t]
  /\ ev' = Ev("SetPredictionsTab", t, "-", 0, FALSE, EmptyBag, {}, "-", 0)
  /\ SameLogin
  /\ UNCHANGED <<token, frameVars, dash, view, an, emp, adm, calls>>

(***************************************************************************)
(* AdminDashboard                                                          *)
(***************************************************************************)
\* the buttons are not rendered while the first status is being loaded
AdminRendered == view = "admin" /\ ~(adm.loading /\ adm.status = "none")

FetchSystemStatusCall == Call("fetchSystemStatus", "await", 0, FALSE, {"getSystemStatus"})

\* the Refresh Status button
RefreshStatus ==
  /\ AdminRendered
  /\ Room(calls, 1, 1)
  /\ adm' = [adm EXCEPT !.loading = TRUE]
  /\ calls' = calls (+) One(FetchSystemStatusCall)
  /\ LET reqs == ApiClientSend("getSystemStatus", token)
     IN /\ ev' = Ev("RefreshStatus", "fetchSystemStatus", "-", 0, FALSE, reqs, {}, "-", 0)
        /\ SameLogin
  /\ UNCHANGED <<token, frameVars, dash, view, an, emp, pred>>

SettleFetchSystemStatus(c, o) ==
  /\ c \in Running /\ c.fn = "fetchSystemStatus"
  /\ token' = ApiClientTokenAfter(token, o)
  /\ adm' = IF c.alive
            THEN [adm EXCEPT !.status = IF ApiClientRejects(o) THEN "demo" ELSE "live",
                             !.loading = FALSE]
            ELSE adm
  /\ calls' = Finish(c)
  /\ ev' = Ev(Settled(c), c.fn, o, 0, TRUE, EmptyBag, {}, "-", 0)
  /\ TrackLogin
  /\ UNCHANGED <<frameVars, dash, view, an, emp, pred>>

\* the two buttons that call trainModels: in the header and on the training card
TrainingButtons == {"Train Models", "Start Training"}

\* variant: only the button of the header is disabled while training
HeaderButtonDisabled(b, a) == b = "Train Models" /\ a.inProgress

\* disabled={trainingInProgress}, on both buttons
TrainingButtonDisabled(b, a) == b \in TrainingButtons /\ a.inProgress

\* a click on a training button that is not disabled, while fewer than most
\* handlers run
TrainModelsWithin(most) ==
  /\ AdminRendered
  /\ \E b \in TrainingButtons : ~TrainingButtonDisabled(b, adm)
  /\ RoomWithin(most, calls, 1, 1)
  /\ adm' = [adm EXCEPT !.inProgress = TRUE]
  /\ calls' = calls (+) One(Call("trainModels", "await", 0, FALSE, {"trainModels"}))
  /\ LET reqs == ApiClientSend("trainModels", token)
     IN /\ ev' = Ev("TrainModels", "trainModels", "-", 0, FALSE, reqs, {}, "-", 0)
        /\ SameLogin
  /\ UNCHANGED <<token, frameVars, dash, view, an, emp, pred>>

TrainModels ==
  /\ view = "admin"
  /\ TrainModelsWithin(MaxHandlers)

\* trainModels after the await: on success a timer is set that refreshes
\* the status two seconds later
SettleTrainModels(c, o) ==
  /\ c \in Running /\ c.fn = "trainModels"
  /\ token' = ApiClientTokenAfter(token, o)
  /\ adm' = IF c.alive
            THEN [adm EXCEPT !.training = IF ApiClientRejects(o) THEN "demo" ELSE "live",
                             !.inProgress = FALSE]
            ELSE adm
  /\ calls' = IF ApiClientRejects(o) THEN Finish(c)
              ELSE Replace(c, [c EXCEPT !.fn = "setTimeout", !.step = "timer", !.pend = {}])
  /\ ev' = Ev(Settled(c), c.fn, o, 0, TRUE, EmptyBag, {}, "-", 0)
  /\ TrackLogin
  /\ UNCHANGED <<frameVars, dash, view, an, emp, pred>>

\* the timer of trainModels fires: fetchSystemStatus()
TimerFires(c) ==
  /\ c \in Running /\ c.fn = "setTimeout"
  /\ Room(calls, 0, 1)
  /\ adm' = IF c.alive THEN [adm EXCEPT !.loading = TRUE] ELSE adm
  /\ calls' = Replace(c, [FetchSystemStatusCall EXCEPT !.alive = c.alive])
  /\ LET reqs == ApiClientSend("getSystemStatus", token)
     IN /\ ev' = Ev("TimerFires", "fetchSystemStatus", "-", 0, FALSE, reqs, {}, "-", 0)
        /\ SameLogin
  /\ UNCHANGED <<token, frameVars, dash, view, an, emp, pred>>

(***************************************************************************)
(* Navigation: logout                                                      *)
(***************************************************************************)
\* the Logout button, rendered while user is not null
HandleLogout ==
  /\ navUser
  /\ Room(calls, 1, 1)
  /\ calls' = calls (+) One(Call("handleLogout", "await", 0, FALSE, {"logout"}))
  /\ LET reqs == ApiClientSend("logout", token)
     IN /\ ev' = Ev("HandleLogout", "handleLogout", "-", 0, FALSE, reqs, {}, "-", 0)
        /\ SameLogin
  /\ UNCHANGED <<token, frameVars, dash, view, viewVars>>

\* variant: a catch that only logs
LogoutTeardownTryOnly(t, u, o) ==
  IF ApiClientRejects(o)
  THEN [token |-> t, user |-> u, nav |-> pendingNav]
  ELSE [token |-> NoToken, user |-> FALSE, nav |-> [to |-> "/login", hard |-> TRUE]]

\* variant: a logout that gives up when it finds no token in the store
LogoutTeardownNeedsToken(t, u, o) ==
  IF t = NoToken
  THEN [token |-> t, user |-> u, nav |-> pendingNav]
  ELSE [token |-> NoToken, user |-> FALSE, nav |-> [to |-> "/login", hard |-> TRUE]]

\* handleLogout after the await: the try (after a resolved call) and the
\* catch (after a rejected one) do the same three things
LogoutTeardown(t, u, o) ==
  [token |-> NoToken, user |-> FALSE, nav |-> [to |-> "/login", hard |-> TRUE]]

SettleHandleLogout(c, o) ==
  /\ c \in Running /\ c.fn = "handleLogout"
  /\ token' = LogoutTeardown(token, navUser, o).token
  /\ navUser' = LogoutTeardown(token, navUser, o).user
  /\ pendingNav' = LogoutTeardown(token, navUser, o).nav
  /\ calls' = Finish(c)
  /\ ev' = Ev(Settled(c), c.fn, o, 0, TRUE, EmptyBag, {}, "-", 0)
  /\ TrackLogin
  /\ UNCHANGED <<route, login, adminAuth, dash, view, viewVars>>

(***************************************************************************)
(* Login page and landing page                                             *)
(***************************************************************************)
\* the API client stores the token of a successful login
ApiClientLoginToken(t, o, returned) ==
  IF o = "ok" THEN returned ELSE ApiClientTokenAfter(t, o)

\* LoginPage.handleLogin up to the await; the button is disabled while loading
SubmitLoginPage ==
  /\ route = "/login" /\ ~login.loading
  /\ Room(calls, 1, 1)
  /\ login' = [loading |-> TRUE, error |-> FALSE]
  /\ calls' = calls (+) One(Call("LoginPage.handleLogin", "await", 0, FALSE, {"login"}))
  /\ LET reqs == ApiClientSend("login", token)
     IN /\ ev' = Ev("SubmitLoginPage", "LoginPage.handleLogin", "-", 0, FALSE, reqs, {}, "-", 0)
        /\ SameLogin
  /\ UNCHANGED <<token, route, pendingNav, navUser, adminAuth, dash, view, viewVars>>

\* the token store after LoginPage.handleLogin: the catch stores a demo token
LoginPageToken(t, o, returned) ==
  IF ApiClientRejects(o) THEN DemoToken ELSE ApiClientLoginToken(t, o, returned)

SettleLoginPage(c, o, returned) ==
  /\ c \in Running /\ c.fn = "LoginPage.handleLogin"
  /\ returned \in ServerTokens
  /\ token' = LoginPageToken(token, o, returned)
  /\ login' = [loading |-> FALSE, error |-> ApiClientRejects(o)]
  /\ pendingNav' = [to |-> "/dashboard", hard |-> TRUE]
  /\ calls' = Finish(c)
  /\ ev' = Ev(Settled(c), c.fn, o, 0, TRUE, EmptyBag, {},
              IF ApiClientRejects(o) THEN "Invalid credentials. Using demo mode..." ELSE "-", 0)
  /\ loginTok' = IF ~ApiClientRejects(o) THEN returned
                 ELSE IF ApiClientTokenAfter(token, o) = NoToken THEN NoToken
                 ELSE loginTok
  /\ UNCHANGED <<route, navUser, adminAuth, dash, view, viewVars>>

\* LandingPage.handleLogin up to the await: a plain fetch without credentials
SubmitLandingLogin ==
  /\ route = "/landing"
  /\ Room(calls, 1, 1)
  /\ calls' = calls (+) One(Call("LandingPage.handleLogin", "await", 0, FALSE, {"login"}))
  /\ LET reqs == One(Req("login", NoAuthHeader))
     IN /\ ev' = Ev("SubmitLandingLogin", "LandingPage.handleLogin", "-", 0, FALSE, reqs, {}, "-", 0)
        /\ SameLogin
  /\ UNCHANGED <<token, frameVars, dash, view, viewVars>>

\* the token store after LandingPage.handleLogin
LandingToken(t, o, returned) ==
  IF ~RawFetchRejects(o) /\ ResponseOk(o) THEN returned ELSE t

SettleLandingLogin(c, o, returned) ==
  /\ c \in Running /\ c.fn = "LandingPage.handleLogin"
  /\ returned \in ServerTokens
  /\ LET good == ~RawFetchRejects(o) /\ ResponseOk(o)
     IN /\ token' = LandingToken(token, o, returned)
        /\ pendingNav' = IF good THEN [to |-> "/dashboard", hard |-> TRUE] ELSE pendingNav
        /\ ev' = Ev(Settled(c), c.fn, o, 0, TRUE, EmptyBag, {},
                    IF good THEN "-"
                    ELSE IF RawFetchRejects(o) THEN "Login failed. Please try again."
                    ELSE "Invalid credentials. Please try again.", 0)
        /\ loginTok' = IF good THEN returned ELSE loginTok
  /\ calls' = Finish(c)
  /\ UNCHANGED <<route, navUser, login, adminAuth, dash, view, viewVars>>

(***************************************************************************)
(* Specifications                                                          *)
(***************************************************************************)
\* the settling of the fetches that the mount effects start
SettleMountFetch ==
  \/ \E c \in Running, o \in Outcomes : SettleFetchDashboardStats(c, o)
  \/ \E c \in Running, r \in AnalyticsOps, o \in Outcomes : SettleFetchAnalyticsData(c, r, o)
  \/ \E c \in Running, o \in Outcomes : SettleFetchEmployees(c, o)
  \/ \E c \in Running, o \in Outcomes : SettleFetchHighRiskEmployees(c, o)
  \/ \E c \in Running, o \in Outcomes : SettleFetchSystemStatus(c, o)

\* Session: pages, guards, login and logout, with the fetches of the mount effects
Next ==
  \/ \E p \in Routes : Visit(p)
  \/ \E p \in Routes : FollowLink(p)
  \/ NavComplete
  \/ \E v \in {"overview", "analytics", "predictions", "employees"} : SetActiveView(v)
  \/ SettleMountFetch
  \/ HandleLogout
  \/ \E c \in Running, o \in Outcomes : SettleHandleLogout(c, o)
  \/ SubmitLoginPage
  \/ \E c \in Running, o \in Outcomes, t \in ServerTokens : SettleLoginPage(c, o, t)
  \/ SubmitLandingLogin
  \/ \E c \in Running, o \in Outcomes, t \in ServerTokens : SettleLandingLogin(c, o, t)

Spec == Init /\ [][Next]_vars

\* the browser has just opened page p with t in the store
Opened(p, t) ==
  LET m == PageMount(p, t)
  IN /\ token = t
     /\ route = p
     /\ pendingNav = m.pnav
     /\ navUser = (t # NoToken)
     /\ login = LoginInit
     /\ dash = m.dash
     /\ adminAuth = m.adminAuth
     /\ view = m.view
     /\ an = m.an
     /\ emp = m.emp
     /\ pred = m.pred
     /\ adm = m.adm
     /\ calls = m.newCalls
     /\ ev = [act |-> "Visit", fn |-> p, out |-> "-", id |-> 0, done |-> FALSE,
              sent |-> m.sent, oks |-> {}, alert |-> "-", body |-> 0, tok0 |-> t]
     /\ loginTok = IF t \in ServerTokens THEN t ELSE NoToken

\* Dashboards: one of the four dashboard pages has just been opened, and
\* the user works inside it
InitDashboards ==
  \E p \in {"/analytics", "/employees", "/predictions", "/admin"},
     t \in {NoToken} \cup Tokens : Opened(p, t)

NextDashboards ==
  \/ \E c \in Running, r \in AnalyticsOps, o \in Outcomes : SettleFetchAnalyticsData(c, r, o)
  \/ \E c \in Running, o \in Outcomes : SettleFetchEmployees(c, o)
  \/ \E c \in Running, o \in Outcomes : SettleFetchHighRiskEmployees(c, o)
  \/ \E c \in Running, o \in Outcomes : SettleFetchSystemStatus(c, o)
  \/ RefreshAnalytics
  \/ RefreshEmployees
  \/ \E id \in EmployeeIds : ViewDetails(id)
  \/ \E c \in Running, o \in Outcomes : SettleFetchEmployeeDetails(c, o)
  \/ \E t \in {"list", "details", "add"} : SetEmployeesTab(t)
  \/ \E v \in FormValues : HandleFormChange(v)
  \/ CreateEmployee
  \/ \E c \in Running, o \in Outcomes : SettleCreateEmployee(c, o)
  \/ RefreshAllData
  \/ \E c \in Running, o \in Outcomes : SettleRefreshAllData(c, o)
  \/ PredictTurnover
  \/ \E c \in Running, o \in Outcomes : SettlePredictTurnover(c, o)
  \/ \E id \in EmployeeIds : ViewHistory(id)
  \/ LoadHistory
  \/ \E c \in Running, o \in Outcomes : SettleFetchEmployeePredictions(c, o)
  \/ \E id \in {0} \cup EmployeeIds : SetEmployeeId(id)
  \/ \E t \in {"predict", "high-risk", "employee-history"} : SetPredictionsTab(t)
  \/ RefreshStatus
  \/ TrainModels
  \/ \E c \in Running, o \in Outcomes : SettleTrainModels(c, o)
  \/ \E c \in Running : TimerFires(c)

SpecDashboards == InitDashboards /\ [][NextDashboards]_vars

\* Multi-resource views: the Analytics batch and the employee-detail batch
InitMulti ==
  \E p \in {"/analytics", "/employees"}, t \in {NoToken} \cup Tokens : Opened(p, t)

NextMulti ==
  \/ RefreshAnalytics
  \/ \E c \in Running, r \in AnalyticsOps, o \in Outcomes : SettleFetchAnalyticsData(c, r, o)
  \/ \E c \in Running, o \in Outcomes : SettleFetchEmployees(c, o)
  \/ \E id \in EmployeeIds : ViewDetails(id)
  \/ \E c \in Running, o \in Outcomes : SettleFetchEmployeeDetails(c, o)
  \/ \E t \in {"list", "details", "add"} : SetEmployeesTab(t)

SpecMulti == InitMulti /\ [][NextMulti]_vars

\* Session in which the answer to a logout request that is still awaited
\* does arrive
SpecLogout ==
  /\ Init /\ [][Next]_vars
  /\ WF_vars(\E c \in Running, o \in Outcomes : SettleHandleLogout(c, o))

(***************************************************************************)
(* Properties                                                              *)
(***************************************************************************)
\* page p has just been mounted; the mount leaves the token store alone, so
\* token is what the page found there
Mounted(p) == ev.act \in {"Visit", "FollowLink", "Redirect", "RouterPush"} /\ ev.fn = p

\* a handler has just handled the answer to a request
Answered == ev.act \in {"Settle", "SettleDetached"}

\* a handler of a mounted component has just run to its end
Finished(fn) == ev.act = "Settle" /\ ev.fn = fn /\ ev.done

\* the fetch failed: no response, or a non-2xx response other than 401
Failed(o) == o \in {"net", "err"}

RECURSIVE SumCopies(_, _)
SumCopies(S, B) ==
  IF S = {} THEN 0
  ELSE LET r == CHOOSE x \in S : TRUE
       IN  CopiesIn(r, B) + SumCopies(S \ {r}, B)

\* how many requests for operation o are in the bag B
Requests(B, o) == SumCopies({r \in BagToSet(B) : r.op = o}, B)

\* operations that fetch or change data (not login, not logout)
DataOps == Ops \ {"login", "logout"}

\* C1: mounting any protected view while the token store is empty redirects
\* to the landing route, and the mount issues no request.
\* The Employees page has no guard: this is violated.
C1_ProtectedMountWithoutTokenRedirects ==
  \A p \in ProtectedRoutes :
    (Mounted(p) /\ token = NoToken) =>
      /\ ev.sent = EmptyBag
      /\ pendingNav.to = "/landing"

\* C2: when a fetch has failed (no response, or non-2xx other than 401) and
\* its handler has finished, the view holds the resource's fallback dataset
\* and is not loading.  Violated: the Dashboard stats have no fallback, and a
\* non-2xx answer to the employee list is read as an empty list.
C2_FailedFetchShowsFallback ==
  /\ (Finished("fetchDashboardStats") /\ Failed(ev.out))
       => (dash.stats = "demo" /\ ~dash.loading)
  /\ (Finished("fetchEmployees") /\ Failed(ev.out))
       => (emp.employees = "demo" /\ ~emp.loading)
  /\ (Finished("fetchHighRiskEmployees") /\ Failed(ev.out))
       => (pred.highRisk = "demo" /\ ~pred.loading)
  /\ (Finished("fetchEmployeePredictions") /\ Failed(ev.out))
       => (pred.predictions = D("demo", ev.id) /\ ~pred.loading)
  /\ (Finished("fetchSystemStatus") /\ Failed(ev.out))
       => (adm.status = "demo" /\ ~adm.loading)

\* C3 (as the code has it): a multi-resource batch falls back as a whole.
\* When the Analytics batch has finished, all seven resources are live if
\* all seven calls succeeded and all seven are demo data otherwise; when a
\* request of the employee detail gets no response, all three resources are
\* demo data, those already fetched with success included.  Loading is
\* false in both cases.
C3_RejectedBatchFallsBackAsAWhole ==
  /\ Finished("fetchAnalyticsData")
       => /\ an.data = IF ev.oks = AnalyticsOps THEN AnAll("live") ELSE AnAll("demo")
          /\ ~an.loading
  /\ (Finished("fetchEmployeeDetails") /\ RawFetchRejects(ev.out))
       => /\ emp.selected = D("demo", ev.id)
          /\ emp.predictions = D("demo", ev.id)
          /\ emp.strategies = D("demo", ev.id)
          /\ ~emp.loading

\* C3, reached: an Analytics batch was rejected after some of its requests
\* had been answered with success
C3_PartialFailureHappened ==
  /\ Finished("fetchAnalyticsData")
  /\ ev.oks # {} /\ ev.oks # AnalyticsOps
  /\ an.data = AnAll("demo")

\* the resource of a view that operation r fills
Resource(r) ==
  CASE r \in AnalyticsOps           -> an.data[r]
    [] r = "getEmployee"            -> emp.selected.k
    [] r = "getEmployeePredictions" -> emp.predictions.k
    [] r = "getRetentionStrategies" -> emp.strategies.k

\* C3 (as stated): when a batch has finished, every resource whose fetch
\* succeeded holds its live data, only the failed ones hold demo data.
C3_OnlyFailedResourcesFallBack ==
  (Finished("fetchAnalyticsData") \/ Finished("fetchEmployeeDetails"))
    => \A r \in ev.oks : Resource(r) = "live"

\* C4: when a request has been answered with 401, the token store is empty
\* once the answer has been handled (stated here for the data requests; the
\* login handlers are C5's).  Violated by the handlers that call fetch
\* directly: they never look at the status.
C4_UnauthorizedClearsToken ==
  (Answered /\ ev.out = "unauth"
     /\ ev.fn \notin {"LoginPage.handleLogin", "LandingPage.handleLogin"})
    => token = NoToken

\* C5: a token is in the store only if a login succeeded since the store was
\* last empty, and a login that fails leaves the store as it was (or empty,
\* when the failure is a 401).  Violated: the login page stores a demo token
\* when the login fails.
C5_OnlyLoginWritesToken ==
  /\ token # NoToken => token = loginTok
  /\ (Answered /\ ev.fn \in {"LoginPage.handleLogin", "LandingPage.handleLogin"}
        /\ ev.out # "ok")
       => (token = ev.tok0 \/ (ev.out = "unauth" /\ token = NoToken))

\* a logout request is awaited
LogoutInFlight == \E c \in Running : c.fn = "handleLogout"

\* the page was loaded anew, which throws away the handlers that were running
PageUnloaded == ev.act \in {"Visit", "Redirect"}

\* C6: when handleLogout has handled the answer of the server, a success or
\* a failure, the token store is empty, the navigation's user is null and
\* the browser is sent to the login route; and a logout that is awaited
\* leads to an empty token store, unless the page is loaded anew first.
C6_LogoutAlwaysTearsDown ==
  /\ []((Answered /\ ev.fn = "handleLogout")
          => /\ token = NoToken
             /\ ~navUser
             /\ pendingNav = [to |-> "/login", hard |-> TRUE])
  /\ (LogoutInFlight ~> (token = NoToken \/ PageUnloaded))

\* C6, reached: the server call failed and the session was torn down
C6_LogoutTornDownAfterFailure ==
  /\ Answered /\ ev.fn = "handleLogout" /\ ApiClientRejects(ev.out)
  /\ ev.tok0 # NoToken
  /\ token = NoToken /\ ~navUser /\ pendingNav.to = "/login"

\* satisfaction_level values the form accepts, in hundredths
ValidSatisfaction == 0..100

\* C7: a click on Create Employee with satisfaction_level outside [0, 1]
\* issues no request and leaves the form open with its data.
\* Violated: createEmployee posts whatever the form holds.
C7_OutOfRangeFormIsNotSubmitted ==
  (ev.act = "CreateEmployee" /\ ev.body \notin ValidSatisfaction)
    => /\ ev.sent = EmptyBag
       /\ emp.tab = "add" /\ emp.form = ev.body

\* the resources a protected page declares for its mount
Declared(p) ==
  CASE p = "/dashboard"   -> {"getDashboardAnalytics"}
    [] p = "/analytics"   -> AnalyticsOps
    [] p = "/employees"   -> {"listEmployees"}
    [] p = "/predictions" -> {"getHighRiskPredictions"}
    [] p = "/admin"       -> {"getSystemStatus"}

\* the handlers that the mount effects start
MountFetches == {"fetchDashboardStats", "fetchAnalyticsData", "fetchEmployees",
                 "fetchHighRiskEmployees", "fetchSystemStatus"}

C9_RequestsCarryLoginToken ==
  loginTok # NoToken =>
    /\ token = loginTok
    /\ \A r \in BagToSet(ev.sent) :
         r.op \in DataOps => r.hdr = BearerHeader(loginTok)

\* C10: a request carries the stored token as the bearer when there is one
\* and no bearer credential when the store is empty.  Violated: the
\* handlers that call fetch directly send "Bearer null" with an empty store.
C10_BearerIffTokenStored ==
  \A r \in BagToSet(ev.sent) :
    r.op \in DataOps =>
      r.hdr = IF token = NoToken THEN NoAuthHeader ELSE BearerHeader(token)

\* Refresh: a dashboard page has just been opened and the user only uses
\* its Refresh button
NextRefresh ==
  \/ \E c \in Running, r \in AnalyticsOps, o \in Outcomes : SettleFetchAnalyticsData(c, r, o)
  \/ \E c \in Running, o \in Outcomes : SettleFetchEmployees(c, o)
  \/ \E c \in Running, o \in Outcomes : SettleFetchHighRiskEmployees(c, o)
  \/ \E c \in Running, o \in Outcomes : SettleFetchSystemStatus(c, o)
  \/ RefreshAnalytics
  \/ RefreshEmployees
  \/ RefreshAllData
  \/ \E c \in Running, o \in Outcomes : SettleRefreshAllData(c, o)
  \/ RefreshStatus

\* the answer to a request that is awaited
Answer ==
  \/ \E c \in Running, r \in AnalyticsOps, o \in Outcomes : SettleFetchAnalyticsData(c, r, o)
  \/ \E c \in Running, o \in Outcomes : SettleFetchEmployees(c, o)
  \/ \E c \in Running, o \in Outcomes : SettleFetchHighRiskEmployees(c, o)
  \/ \E c \in Running, o \in Outcomes : SettleFetchSystemStatus(c, o)
  \/ \E c \in Running, o \in Outcomes : SettleRefreshAllData(c, o)

\* every request is answered or fails in the end
SpecRefresh == InitDashboards /\ [][NextRefresh]_vars /\ WF_vars(Answer)

\* C11: while the fetch that the mount effect of a dashboard started is
\* awaited, the loading flag of that dashboard is true.
\* Violated: fetchHighRiskEmployees never sets loading.
C11_LoadingWhileMountFetchAwaited ==
  \A c \in Running :
    (c.alive /\ c.step = "await") =>
      /\ c.fn = "fetchAnalyticsData" => an.loading
      /\ c.fn = "fetchEmployees" => emp.loading
      /\ c.fn = "fetchHighRiskEmployees" => pred.loading
      /\ c.fn = "fetchSystemStatus" => adm.loading

\* the clicks on the Refresh buttons and the handlers they run
RefreshActs == {"RefreshAnalytics", "RefreshEmployees", "RefreshAllData", "RefreshStatus"}
RefreshFns  == {"fetchAnalyticsData", "fetchEmployees", "refreshAllData", "fetchSystemStatus"}

\* the loading flag of the dashboard that runs handler fn
LoadingOf(fn) ==
  CASE fn = "fetchAnalyticsData" -> an.loading
    [] fn = "fetchEmployees"     -> emp.loading
    [] fn = "refreshAllData"     -> pred.loading
    [] fn = "fetchSystemStatus"  -> adm.loading

\* the request(s) a Refresh of the dashboard running fn has to issue
RefreshOps(fn) ==
  CASE fn = "fetchAnalyticsData" -> AnalyticsOps
    [] fn = "fetchEmployees"     -> {"listEmployees"}
    [] fn = "refreshAllData"     -> {"getHighRiskPredictions"}
    [] fn = "fetchSystemStatus"  -> {"getSystemStatus"}

\* the data of the dashboard that runs handler fn is that of a finished
\* fetch: what the try stored, or the fallback of the catch
HoldsFetchedData(fn) ==
  CASE fn = "fetchAnalyticsData" -> an.data \in {AnAll("live"), AnAll("demo")}
    [] fn = "fetchEmployees"     -> emp.employees \in {"live", "demo", "empty"}
    [] fn = "refreshAllData"     -> pred.highRisk \in {"live", "demo", "empty"}
    [] fn = "fetchSystemStatus"  -> adm.status \in {"live", "demo"}

\* the loading flag of the dashboard that is mounted
ViewLoading ==
  CASE view = "analytics"   -> an.loading
    [] view = "employees"   -> emp.loading
    [] view = "predictions" -> pred.loading
    [] view = "admin"       -> adm.loading
    [] OTHER                -> FALSE

NextFetches ==
  \/ NextRefresh
  \/ \E id \in EmployeeIds : ViewDetails(id)
  \/ \E c \in Running, o \in Outcomes : SettleFetchEmployeeDetails(c, o)
  \/ \E t \in {"predict", "high-risk", "employee-history"} : SetPredictionsTab(t)
  \/ \E id \in EmployeeIds : ViewHistory(id)
  \/ \E c \in Running, o \in Outcomes : SettleFetchEmployeePredictions(c, o)
  \/ TrainModels
  \/ \E c \in Running, o \in Outcomes : SettleTrainModels(c, o)
  \/ \E c \in Running : TimerFires(c)

SpecFetches == InitDashboards /\ [][NextFetches]_vars

\* steps the user takes: a button, or opening a page
UserActs == {"Visit", "FollowLink", "RefreshAnalytics", "RefreshEmployees",
             "RefreshAllData", "RefreshStatus", "ViewDetails", "ViewHistory",
             "TrainModels"}

\* this step is call c handling the outcome o of the request it awaited
Handles(c, o) ==
  \/ SettleFetchAnalyticsData(c, NextAnswer(c.pend), o)
  \/ SettleFetchEmployees(c, o)
  \/ SettleFetchEmployeeDetails(c, o)
  \/ SettleFetchHighRiskEmployees(c, o)
  \/ SettleRefreshAllData(c, o)
  \/ SettleFetchEmployeePredictions(c, o)
  \/ SettleFetchSystemStatus(c, o)
  \/ SettleTrainModels(c, o)

\* this step sets the timer of trainModels
TimerSet ==
  \E d \in BagToSet(calls') : d.fn = "setTimeout" /\ CopiesIn(d, calls') > CopiesIn(d, calls)

C15_EmptyHighRiskListShowsEmptyState ==
  (/\ ev.act = "Settle" /\ ev.fn \in {"fetchHighRiskEmployees", "refreshAllData"}
   /\ ev.out = "ok"
   /\ pred.highRisk = "empty"
   /\ HighRiskTab(pred).shown)
    => /\ HighRiskTab(pred).rows = "empty"
       /\ HighRiskTab(pred).emptyState

\* what handleLogout leaves behind when it starts from token t and user u
\* and the server answers o
AfterLogout(t, u, o) ==
  [token |-> LogoutTeardown(t, u, o).token,
   user  |-> LogoutTeardown(t, u, o).user,
   nav   |-> LogoutTeardown(t, u, o).nav]

\* C16: logout is idempotent with respect to the token store.  A logout
\* that finds no token in the store runs to its end and leaves the store
\* empty; and a second logout, whatever the server answers to either one,
\* leaves what the first one left.
C16_LogoutIdempotent ==
  /\ (Answered /\ ev.fn = "handleLogout" /\ ev.tok0 = NoToken)
       => (ev.done /\ token = NoToken)
  /\ \A o1 \in Outcomes, o2 \in Outcomes :
       LET once == AfterLogout(token, navUser, o1)
       IN  /\ once.token = NoToken
           /\ AfterLogout(once.token, once.user, o2) = once

\* a logout was handled while the store was already empty
C16_LogoutWithEmptyStore ==
  /\ Answered /\ ev.fn = "handleLogout"
  /\ ev.tok0 = NoToken
  /\ token = NoToken

GuardedRoutes == {"/dashboard", "/admin"}

\* what the guarded page p shows: nothing while another page is open, else
\* the placeholder or its content, by isAuthenticated
PageRender(p) ==
  IF route # p THEN "-"
  ELSE IF (p = "/dashboard" /\ dash.auth) \/ (p = "/admin" /\ adminAuth)
  THEN "content"
  ELSE "Checking authentication..."

\* C17: a guarded page (Dashboard, Admin) shows only the "Checking
\* authentication..." placeholder until its guard has found a token: it
\* shows its content only if the store held a token when the guard ran at
\* the mount of the page.
C17_ContentOnlyAfterGuardFoundToken ==
  /\ \A p \in GuardedRoutes : PageRender(p) # "content"
  /\ [][\A p \in GuardedRoutes :
          /\ Mounted(p)' =>
               PageRender(p)' = IF ev'.tok0 # NoToken
                                THEN "content" ELSE "Checking authentication..."
          /\ (PageRender(p)' = "content" /\ ~Mounted(p)') =>
               PageRender(p) = "content"]_vars

\* the Admin page was mounted with an empty store and shows the placeholder
C17_PlaceholderWhileRedirecting ==
  /\ Mounted("/admin") /\ ev.tok0 = NoToken
  /\ PageRender("/admin") = "Checking authentication..."
  /\ pendingNav.to = "/landing"

\* the handlers of the two login forms
LoginForms == {"LoginPage.handleLogin", "LandingPage.handleLogin"}

\* C18: only the login form shows an explicit error message: a handler of
\* any other view that has handled a failed request (fetch or create) has
\* shown no message and no alert.
\* Violated: createEmployee calls alert() on a failed request.
C18_OnlyLoginShowsErrors ==
  (Answered /\ ev.fn \notin LoginForms /\ ev.out # "ok") => ev.alert = "-"

(***************************************************************************)
(* Display: percentages and risk zones                                     *)
(***************************************************************************)
\* a probability or rate in [0, 1], in thousandths
Rates == 0 .. 1000

\* employees counted in one risk zone of the chart
MaxZoneCount == 2

\* the integer nearest to a / b, the larger one of two
RoundDiv(a, b) == (2 * a + b) \div (2 * b)

\* Number.prototype.toFixed(1) of the number a / b: its nearest multiple of
\* one tenth, written with one digit after the point
ToFixed1(a, b) ==
  LET n == RoundDiv(10 * a, b)
  IN  ToString(n \div 10) \o "." \o ToString(n % 10)

\* {(x * 100).toFixed(1)}% of the tables and cards, x being t thousandths
PercentCell(t) == ToFixed1(t * 100, 1000) \o "%"

\* the Turnover Rate card: '0.0' stands in for a rate that is 0 or missing
TurnoverRateCard(t) == (IF t # 0 THEN ToFixed1(t * 100, 1000) ELSE "0.0") \o "%"

\* RiskZoneChart: the share of one zone in the total of the three zones;
\* the number 0 is rendered as "0"
ShareOfTotal(value, total) ==
  (IF total > 0 THEN ToFixed1(value * 100, total) ELSE "0") \o "%"

\* predictTurnover, catch: the zone of the demo result for a probability of
\* t thousandths (Math.random() is in [0, 1))
DemoRiskZone(t) ==
  IF t < 200 THEN "low"
  ELSE IF t < 600 THEN "medium"
  ELSE IF t < 900 THEN "high"
  ELSE "critical"

\* getShortRiskZone: risk.includes(...) is case-sensitive, so among the
\* names that occur only those of the API match
GetShortRiskZone(risk) ==
  CASE risk = "Safe Zone (Green)"         -> "SAFE"
    [] risk = "Low Risk Zone (Yellow)"    -> "LOW"
    [] risk = "Medium Risk Zone (Orange)" -> "MEDIUM"
    [] risk = "High Risk Zone (Red)"      -> "HIGH"
    [] OTHER                              -> "UNKNOWN"

\* a component renders, once, a value: what it was given, and what it shows
Render(site, given, text) ==
  /\ ev.act = "Init"
  /\ ev' = Ev("Render", site, "-", 0, TRUE, EmptyBag, {}, "-", 0)
             @@ [given |-> given, text |-> text]
  /\ UNCHANGED <<token, frameVars, dash, view, viewVars, calls, loginTok>>

\* a cell or card that is given the rate t
ShowPercentCell(t) ==
  /\ t \in Rates
  /\ Render("PercentCell", t, PercentCell(t))

ShowTurnoverRateCard(t) ==
  /\ t \in Rates
  /\ Render("TurnoverRateCard", t, TurnoverRateCard(t))

\* the chart is given the three counts; one line for each zone
ShowRiskZoneChart(low, medium, high) ==
  LET total == low + medium + high
  IN  \E value \in {low, medium, high} :
        /\ {low, medium, high} \subseteq 0 .. MaxZoneCount
        /\ Render("RiskZoneChart", <<value, total>>, ShareOfTotal(value, total))

\* the demo result of predictTurnover and the badge that shows its zone
ShowDemoPrediction(t) ==
  /\ t \in Rates \ {1000}
  /\ Render("DemoPrediction", t, GetShortRiskZone(DemoRiskZone(t)))

\* getRiskColor: the same tests as getShortRiskZone, the class of the badge
GetRiskColor(risk) ==
  CASE risk = "Safe Zone (Green)"         -> "bg-green-100 text-green-800"
    [] risk = "Low Risk Zone (Yellow)"    -> "bg-yellow-100 text-yellow-800"
    [] risk = "Medium Risk Zone (Orange)" -> "bg-orange-100 text-orange-800"
    [] risk = "High Risk Zone (Red)"      -> "bg-red-100 text-red-800"
    [] OTHER                              -> "bg-gray-100 text-gray-800"

\* risk_zone of the records the catch of fetchHighRiskEmployees sets, and of
\* those the catch of fetchEmployeePredictions sets
FallbackHighRiskZones == <<"high", "high">>
FallbackHistoryZones  == <<"High Risk Zone (Red)", "Medium Risk Zone (Orange)">>

\* the Risk Zone cell of row i of the High Risk table, showing the fallback list
ShowFallbackHighRisk(i) ==
  /\ i \in DOMAIN FallbackHighRiskZones
  /\ Render("FallbackHighRisk", FallbackHighRiskZones[i],
            GetShortRiskZone(FallbackHighRiskZones[i]))

\* the Risk Zone cell of row i of the history table, showing the fallback history
ShowFallbackHistory(i) ==
  /\ i \in DOMAIN FallbackHistoryZones
  /\ Render("FallbackHistory", FallbackHistoryZones[i],
            GetShortRiskZone(FallbackHistoryZones[i]))

NextDisplay ==
  \/ \E i \in DOMAIN FallbackHighRiskZones : ShowFallbackHighRisk(i)
  \/ \E i \in DOMAIN FallbackHistoryZones : ShowFallbackHistory(i)
  \/ \E t \in Rates : ShowPercentCell(t)
  \/ \E t \in Rates : ShowTurnoverRateCard(t)
  \/ \E low \in 0 .. MaxZoneCount, medium \in 0 .. MaxZoneCount,
        high \in 0 .. MaxZoneCount : ShowRiskZoneChart(low, medium, high)
  \/ \E t \in Rates \ {1000} : ShowDemoPrediction(t)

SpecDisplay == Init /\ [][NextDisplay]_vars

\* round(v * 100, 1) followed by "%", for v = a / b
RoundedPercent(a, b) ==
  LET n == RoundDiv(1000 * a, b)
  IN  ToString(n \div 10) \o "." \o ToString(n % 10) \o "%"

\* C19: every place that displays a probability or rate v in [0, 1] as a
\* percentage shows round(v * 100, 1) followed by "%", with exactly one
\* decimal digit; a rate of 0 is shown as "0.0%".
\* Violated: RiskZoneChart shows "0%" when there are no employees at all.
C19_PercentagesHaveOneDecimal ==
  /\ (ev.act = "Render" /\ ev.fn \in {"PercentCell", "TurnoverRateCard"})
       => ev.text = RoundedPercent(ev.given, 1000)
  /\ (ev.act = "Render" /\ ev.fn = "RiskZoneChart")
       => ev.text = IF ev.given[2] > 0
                    THEN RoundedPercent(ev.given[1], ev.given[2])
                    ELSE RoundedPercent(0, 1000)

\* the zone of the README for a probability of t thousandths; at exactly
\* 90% it names none
ReadmeZone(t) ==
  CASE t < 200              -> "Safe Zone (Green)"
    [] t >= 200 /\ t < 600  -> "Low Risk Zone (Yellow)"
    [] t >= 600 /\ t < 900  -> "Medium Risk Zone (Orange)"
    [] t > 900              -> "High Risk Zone (Red)"
    [] OTHER                -> "-"

\* C20: the zone the Predictions view shows for its locally generated
\* prediction is the zone of the README for that probability: Safe below
\* 20%, Low from 20% to below 60%, Medium from 60% to below 90%, High above
\* 90%.
\* Violated: the demo result names its zones low, medium, high and critical.
C20_DemoPredictionZoneFollowsReadme ==
  (ev.act = "Render" /\ ev.fn = "DemoPrediction" /\ ReadmeZone(ev.given) # "-")
    => ev.text = GetShortRiskZone(ReadmeZone(ev.given))

(***************************************************************************)
(* Races inside one dashboard                                              *)
(***************************************************************************)
\* Predictions: the page has just been opened; the user refreshes, predicts
\* and opens the history of employees while earlier requests are awaited
NextPredictionsRace ==
  \/ \E c \in Running, o \in Outcomes : SettleFetchHighRiskEmployees(c, o)
  \/ \E t \in {"predict", "high-risk", "employee-history"} : SetPredictionsTab(t)
  \/ RefreshAllDataWithin(MaxOverlap)
  \/ \E c \in Running, o \in Outcomes : SettleRefreshAllData(c, o)
  \/ PredictTurnover
  \/ \E c \in Running, o \in Outcomes : SettlePredictTurnover(c, o)
  \/ \E id \in SelectedIds : ViewHistoryAmong(SelectedIds, MaxOverlap, id)
  \/ LoadHistory
  \/ \E c \in Running, o \in Outcomes : SettleFetchEmployeePredictions(c, o)

SpecPredictionsRace ==
  (\E t \in {NoToken} \cup Tokens : Opened("/predictions", t))
    /\ [][NextPredictionsRace]_vars

\* how many calls of handler fn are running
RunningCalls(fn) == SumCopies({c \in Running : c.fn = fn}, calls)

\* C21: in the Predictions dashboard at most one refreshAllData is in
\* progress, and while it is, from its start to its finally, loading stays
\* true, whatever other fetch of the dashboard starts or settles meanwhile.
\* Violated: View History is not disabled while loading, and the finally of
\* its fetch sets loading to false.
C21_LoadingHeldWhileRefreshing ==
  /\ RunningCalls("refreshAllData") <= 1
  /\ RunningCalls("refreshAllData") = 1 => pred.loading

\* C22: once every prediction-history request has settled, the history shown
\* is that of the employee in employeeId, whatever the order of the answers.
\* Violated: setPredictions(data) takes whatever answer arrives last.
C22_HistoryOfCurrentEmployee ==
  (/\ RunningCalls("fetchEmployeePredictions") = 0
   /\ RunningCalls("refreshAllData") = 0
   /\ pred.predictions \in {D(k, i) : k \in {"live", "demo"}, i \in SelectedIds})
    => pred.predictions.id = pred.employeeId

\* Employees: the page has just been opened; the user refreshes, opens the
\* details of employees and creates an employee while earlier requests are
\* awaited
NextEmployeesRace ==
  \/ RefreshEmployees
  \/ \E c \in Running, o \in Outcomes : SettleFetchEmployees(c, o)
  \/ \E t \in {"list", "details", "add"} : SetEmployeesTab(t)
  \/ \E id \in SelectedIds : ViewDetailsAmong(SelectedIds, MaxOverlap, id)
  \/ \E c \in Running, o \in Outcomes : SettleFetchEmployeeDetails(c, o)
  \/ CreateEmployee
  \/ \E c \in Running, o \in Outcomes : SettleCreateEmployee(c, o)

SpecEmployeesRace ==
  (\E t \in {NoToken} \cup Tokens : Opened("/employees", t))
    /\ [][NextEmployeesRace]_vars

\* the resources of the details tab that belong to an employee
OfAnEmployee(d) == d \in {D(k, i) : k \in {"live", "demo"}, i \in SelectedIds}

\* C23: once every fetchEmployeeDetails call has settled, selectedEmployee,
\* employeePredictions and retentionStrategies refer to one employee.
\* Violated: two overlapping calls write the three states in turn.
C23_DetailsOfOneEmployee ==
  RunningCalls("fetchEmployeeDetails") = 0 =>
    \A d1, d2 \in {emp.selected, emp.predictions, emp.strategies} :
      OfAnEmployee(d1) /\ OfAnEmployee(d2) => d1.id = d2.id

\* C24: loading of the Employees dashboard is true whenever a request of
\* fetchEmployees, fetchEmployeeDetails or createEmployee is in flight.
\* Violated: every handler sets the shared flag to false in its own finally.
C24_LoadingWhileInFlight ==
  (view = "employees" /\
   \E c \in Running : c.alive /\ c.fn \in {"fetchEmployees", "fetchEmployeeDetails",
                                           "createEmployee"})
    => emp.loading

\* Analytics: the page has just been opened; the user clicks Refresh Data
\* whenever the button is there, also while answers to a batch that has
\* already rejected are still on their way
NextAnalyticsRace ==
  \/ RefreshAnalyticsWithin(MaxOverlap)
  \/ \E c \in Running, r \in AnalyticsOps, o \in Outcomes : SettleFetchAnalyticsData(c, r, o)

SpecAnalyticsRace ==
  (\E t \in {NoToken} \cup Tokens : Opened("/analytics", t))
    /\ [][NextAnalyticsRace]_vars

\* batches whose Promise.all has not settled yet
UnsettledBatches ==
  SumCopies({c \in Running : c.fn = "fetchAnalyticsData" /\ c.step = "await"}, calls)

\* an answer to a batch whose Promise.all has already rejected
LateAnswer ==
  \E c \in Running, r \in AnalyticsOps, o \in Outcomes :
    c.step = "rejected" /\ SettleFetchAnalyticsData(c, r, o)

\* C25: in the Analytics dashboard at most one batch of fetchAnalyticsData
\* is unsettled at a time, and loading is true as long as it is; the seven
\* resources are all unfetched, all live or all demo; only the step that
\* settles a batch changes them, and an answer that arrives after its batch
\* has rejected changes nothing of the view.
C25_OneBatchAllOrNothing ==
  [][/\ UnsettledBatches' <= 1
     /\ UnsettledBatches' = 1 => an'.loading
     /\ an'.data \in {AnAll("none"), AnAll("live"), AnAll("demo")}
     /\ an'.data # an.data =>
          /\ ev'.act = "Settle" /\ ev'.fn = "fetchAnalyticsData" /\ ev'.done
          /\ ~an'.loading
          /\ an'.data = IF ev'.out = "ok" THEN AnAll("live") ELSE AnAll("demo")
     /\ LateAnswer => an' = an]_vars

\* an answer to a rejected batch has been dropped while the next batch is awaited
C25_LateAnswerDropped ==
  /\ ev.act = "Settle" /\ ev.fn = "fetchAnalyticsData" /\ ~ev.done /\ ev.oks = {}
  /\ UnsettledBatches = 1 /\ an.loading /\ an.data = AnAll("demo")

\* Admin: the page has just been opened; the user trains the models and
\* refreshes the status while earlier requests are awaited
NextTraining ==
  \/ \E c \in Running, o \in Outcomes : SettleFetchSystemStatus(c, o)
  \/ RefreshStatus
  \/ TrainModelsWithin(MaxOverlap)
  \/ \E c \in Running, o \in Outcomes : SettleTrainModels(c, o)
  \/ \E c \in Running : TimerFires(c)

SpecTraining ==
  (\E t \in {NoToken} \cup Tokens : Opened("/admin", t))
    /\ [][NextTraining]_vars

\* C26: in the Admin dashboard at most one train-models request is in
\* flight: trainingInProgress is true exactly from the start of trainModels
\* until its request has settled, with success or failure, and both
\* training buttons are disabled exactly while it is true.
C26_OneTrainingAtATime ==
  /\ RunningCalls("trainModels") <= 1
  /\ adm.inProgress <=> RunningCalls("trainModels") = 1
  /\ \A b \in TrainingButtons : TrainingButtonDisabled(b, adm) <=> adm.inProgress

\* a training was started again after an earlier one had settled, while the
\* status is being fetched
C26_TrainedAgain ==
  /\ ev.act = "TrainModels" /\ adm.inProgress /\ adm.training \in {"live", "demo"}
  /\ RunningCalls("trainModels") = 1 /\ RunningCalls("fetchSystemStatus") = 1

\* Add Employee: the page has just been opened; the user fills in the form
\* and creates employees
NextCreate ==
  \/ \E c \in Running, o \in Outcomes : SettleFetchEmployees(c, o)
  \/ \E t \in {"list", "details", "add"} : SetEmployeesTab(t)
  \/ \E v \in FormValues : HandleFormChange(v)
  \/ CreateEmployee
  \/ \E c \in Running, o \in Outcomes : SettleCreateEmployee(c, o)

SpecCreate ==
  (\E t \in {NoToken} \cup Tokens : Opened("/employees", t))
    /\ [][NextCreate]_vars

\* C27: createEmployee changes the form only on success.  When the answer
\* is not 2xx or the request fails, formData and the employee list stay as
\* they are and no request is sent; on a 2xx answer formData is reset to
\* its defaults and exactly one re-fetch of the list is started.
C27_FormChangesOnlyOnSuccess ==
  [][\A c \in Running, o \in Outcomes :
       (c.alive /\ SettleCreateEmployee(c, o)) =>
         IF o = "ok"
         THEN /\ emp'.form = FormDefault
              /\ ev'.sent = FetchEmployeesReq /\ BagCardinality(ev'.sent) = 1
              /\ RunningCalls("fetchEmployees")' = RunningCalls("fetchEmployees") + 1
         ELSE /\ emp'.form = emp.form /\ emp'.employees = emp.employees
              /\ ev'.sent = EmptyBag
              /\ RunningCalls("fetchEmployees")' = RunningCalls("fetchEmployees")]_vars

\* a create that failed has left the edited form as it was
C27_EditedFormKept ==
  /\ ev.act = "Settle" /\ ev.fn = "createEmployee" /\ ev.out \in {"err", "unauth", "net"}
  /\ emp.form # FormDefault /\ emp.tab = "add" /\ ~emp.loading

\* the labels and the badge class that stand for a recognised zone
ShortZones == {"SAFE", "LOW", "MEDIUM", "HIGH"}
GrayBadge  == GetRiskColor("")

\* C28: every risk_zone the Predictions dashboard produces itself (fallback
\* high-risk records, fallback prediction history, demo prediction) is shown
\* as SAFE, LOW, MEDIUM or HIGH with a badge that is not gray.
\* Violated: the fallback high-risk records carry "high" and the demo
\* prediction "low", "medium", "high" or "critical", which match no test.
C28_OwnZonesAreRecognised ==
  ev.act = "Render" =>
    /\ ev.fn \in {"FallbackHighRisk", "FallbackHistory"} =>
         ev.text \in ShortZones /\ GetRiskColor(ev.given) # GrayBadge
    /\ ev.fn = "DemoPrediction" =>
         ev.text \in ShortZones /\ GetRiskColor(DemoRiskZone(ev.given)) # GrayBadge

====
